---- MODULE Spec2Model ----
(***************************************************************************)
(* Model of the infrastructure inspection backend:                         *)
(*   backend/app/models/severity.py    SeverityAssessor (rule ladders)      *)
(*   backend/app/models/detector.py    DefectDetector (opaque detector)     *)
(*   backend/app/models/vlm.py         VisionLanguageModel (explanations)   *)
(*   backend/app/services/inspection.py InspectionService (pipeline)        *)
(*   backend/app/api/inspect.py        POST /inspect handler, singleton     *)
(*                                                                         *)
(* Numbers.  Pixel coordinates and image sizes are integers.  A confidence  *)
(* is an integer count of 1/10000 (8000 is 0.8).  The code's float tests    *)
(* "area / img_area > 0.05" and "max / min > 8" are written cross           *)
(* multiplied (100 * area > 5 * img_area, max > 8 * min); for integer       *)
(* operands of this size the correctly rounded float quotient compares with *)
(* the float literal exactly as the rational does.                          *)
(***************************************************************************)
EXTENDS Integers, Sequences, FiniteSets, TLC

VARIABLES
    as_args,      \* arguments of the assess_severity call under study
    as_result,    \* what that call produced: nothing yet, a return, a raise
    inspection_service, \* api/inspect.py: the module-level singleton
    running,      \* the request whose handler occupies the event loop, 0 if none
    pc,           \* per request: where its handler stands
    upload,       \* per request: content type and body of the upload
    image,        \* per request: image.size of the decoded image
    detections,   \* per request: the list the detector returned
    severity,     \* per request: assess_severity's result for the current detection
    processed,    \* per request: processed_detections
    response,     \* per request: what the handler answered
    det_in_flight,   \* requests inside DefectDetector.detect
    expl_in_flight,  \* requests inside the explanation provider
    calls,        \* per request: calls made to detect, assess_severity, the provider
    aborted,      \* per request: 0, or the detection in hand when the caller hung up
    health        \* the body GET /health answered last, until it is sent

assessVars == <<as_args, as_result>>
pipeVars == <<inspection_service, running, pc, upload, image, detections, severity,
              processed, response, det_in_flight, expl_in_flight, calls, aborted,
              health>>
vars == <<as_args, as_result, inspection_service, running, pc, upload, image,
          detections, severity, processed, response, det_in_flight, expl_in_flight,
          calls, aborted, health>>

(***************************************************************************)
(* Bounds of the input domain of assess_severity.                           *)
(***************************************************************************)
MaxSide == 10      \* box sides range over multiples of 40 up to 40 * MaxSide
MaxReq == 2        \* POST /inspect requests the process handles
MaxDet == 3        \* longest list the detector returns

Max2(a, b) == IF a >= b THEN a ELSE b
Min2(a, b) == IF a <= b THEN a ELSE b

(***************************************************************************)
(* str.lower() on the defect type names that occur.                         *)
(***************************************************************************)
TypeNames == {"crack", "corrosion", "spalling", "Crack", "CORROSION",
              "Spalling", "rust_stain", "Rust_Stain"}

Lower(s) ==
    CASE s = "Crack"      -> "crack"
      [] s = "CORROSION"  -> "corrosion"
      [] s = "Spalling"   -> "spalling"
      [] s = "Rust_Stain" -> "rust_stain"
      [] OTHER            -> s

(***************************************************************************)
(* Results of a call: a return value or a raised exception.                 *)
(***************************************************************************)
NoCall == [kind |-> "none", severity |-> "", reasoning |-> "", exc |-> ""]
Return(sev, why) == [kind |-> "return", severity |-> sev, reasoning |-> why, exc |-> ""]
Raise(e) == [kind |-> "raise", severity |-> "", reasoning |-> "", exc |-> e]

(***************************************************************************)
(* Rationals.  relative_area and aspect_ratio are quotients; a quotient is  *)
(* kept as the pair <<numerator, denominator>> with denominator > 0, and    *)
(* RatGT(q, n, d) is the float test  q > n / d.                             *)
(***************************************************************************)
RatGT(q, n, d) == q[1] * d > n * q[2]

\* A mis-typed first rule: both comparisons non-strict.
AssessCrackNonStrict(relative_area, width, height, aspect_ratio, confidence) ==
    LET max_dimension == Max2(width, height) IN
    IF ~RatGT(<<8, 1>>, aspect_ratio[1], aspect_ratio[2])
       /\ ~RatGT(<<5, 100>>, relative_area[1], relative_area[2])
    THEN Return("High", "Long crack with significant extent, potential structural concern")
    ELSE IF RatGT(relative_area, 15, 100)
    THEN Return("High", "Large crack covering substantial area, requires immediate attention")
    ELSE IF max_dimension > 300 /\ RatGT(aspect_ratio, 5, 1)
    THEN Return("High", "Extensive linear crack, may indicate structural movement")
    ELSE IF RatGT(relative_area, 3, 100)
            \/ (RatGT(aspect_ratio, 4, 1) /\ max_dimension > 150)
    THEN Return("Medium", "Moderate crack requiring monitoring and potential repair")
    ELSE IF confidence > 8000 /\ RatGT(relative_area, 1, 100)
    THEN Return("Medium", "Clearly visible crack, should be assessed by engineer")
    ELSE Return("Low", "Small localized crack, likely superficial but should be documented")

\* The ladder without its third rule.
AssessCrackNoRule3(relative_area, width, height, aspect_ratio, confidence) ==
    LET max_dimension == Max2(width, height) IN
    IF RatGT(aspect_ratio, 8, 1) /\ RatGT(relative_area, 5, 100)
    THEN Return("High", "Long crack with significant extent, potential structural concern")
    ELSE IF RatGT(relative_area, 15, 100)
    THEN Return("High", "Large crack covering substantial area, requires immediate attention")
    ELSE IF RatGT(relative_area, 3, 100)
            \/ (RatGT(aspect_ratio, 4, 1) /\ max_dimension > 150)
    THEN Return("Medium", "Moderate crack requiring monitoring and potential repair")
    ELSE IF confidence > 8000 /\ RatGT(relative_area, 1, 100)
    THEN Return("Medium", "Clearly visible crack, should be assessed by engineer")
    ELSE Return("Low", "Small localized crack, likely superficial but should be documented")

\* SeverityAssessor._assess_crack
AssessCrack(relative_area, width, height, aspect_ratio, confidence) ==
    LET max_dimension == Max2(width, height) IN
    IF RatGT(aspect_ratio, 8, 1) /\ RatGT(relative_area, 5, 100)
    THEN Return("High", "Long crack with significant extent, potential structural concern")
    ELSE IF RatGT(relative_area, 15, 100)
    THEN Return("High", "Large crack covering substantial area, requires immediate attention")
    ELSE IF max_dimension > 300 /\ RatGT(aspect_ratio, 5, 1)
    THEN Return("High", "Extensive linear crack, may indicate structural movement")
    ELSE IF RatGT(relative_area, 3, 100)
            \/ (RatGT(aspect_ratio, 4, 1) /\ max_dimension > 150)
    THEN Return("Medium", "Moderate crack requiring monitoring and potential repair")
    ELSE IF confidence > 8000 /\ RatGT(relative_area, 1, 100)
    THEN Return("Medium", "Clearly visible crack, should be assessed by engineer")
    ELSE Return("Low", "Small localized crack, likely superficial but should be documented")

\* The first two rules in the opposite order.
AssessCorrosionSwapped(relative_area, area, confidence) ==
    IF area > 50000 /\ confidence > 7000
    THEN Return("High", "Large corroded area indicating advanced deterioration")
    ELSE IF RatGT(relative_area, 12, 100)
    THEN Return("High", "Extensive corrosion with likely material degradation, immediate assessment needed")
    ELSE IF RatGT(relative_area, 4, 100)
    THEN Return("Medium", "Moderate corrosion present, risk of progression if untreated")
    ELSE IF area > 15000
    THEN Return("Medium", "Significant corroded area requiring remediation planning")
    ELSE Return("Low", "Surface-level corrosion detected, monitor for progression")

\* SeverityAssessor._assess_corrosion
AssessCorrosion(relative_area, area, confidence) ==
    IF RatGT(relative_area, 12, 100)
    THEN Return("High", "Extensive corrosion with likely material degradation, immediate assessment needed")
    ELSE IF area > 50000 /\ confidence > 7000
    THEN Return("High", "Large corroded area indicating advanced deterioration")
    ELSE IF RatGT(relative_area, 4, 100)
    THEN Return("Medium", "Moderate corrosion present, risk of progression if untreated")
    ELSE IF area > 15000
    THEN Return("Medium", "Significant corroded area requiring remediation planning")
    ELSE Return("Low", "Surface-level corrosion detected, monitor for progression")

\* The corrosion confidence threshold (0.7) pasted into the spalling ladder.
AssessSpallingPasted(relative_area, area, confidence) ==
    IF RatGT(relative_area, 10, 100)
    THEN Return("High", "Extensive spalling, possible reinforcement exposure, structural integrity at risk")
    ELSE IF area > 40000 /\ confidence > 7000
    THEN Return("High", "Large spalled region indicating concrete deterioration, urgent repair required")
    ELSE IF RatGT(relative_area, 3, 100)
    THEN Return("Medium", "Moderate spalling with material loss, repair recommended")
    ELSE IF area > 10000
    THEN Return("Medium", "Significant surface spalling, assess for underlying damage")
    ELSE Return("Low", "Minor surface spalling detected, document and monitor")

\* SeverityAssessor._assess_spalling
AssessSpalling(relative_area, area, confidence) ==
    IF RatGT(relative_area, 10, 100)
    THEN Return("High", "Extensive spalling, possible reinforcement exposure, structural integrity at risk")
    ELSE IF area > 40000 /\ confidence > 7500
    THEN Return("High", "Large spalled region indicating concrete deterioration, urgent repair required")
    ELSE IF RatGT(relative_area, 3, 100)
    THEN Return("Medium", "Moderate spalling with material loss, repair recommended")
    ELSE IF area > 10000
    THEN Return("Medium", "Significant surface spalling, assess for underlying damage")
    ELSE Return("Low", "Minor surface spalling detected, document and monitor")

\* An assessor that remembers: once an entry in hand is High, every later
\* detection is raised to High as well.
AssessSeverityEscalating(defect_type, bbox, size, confidence) ==
    LET width     == bbox[3] - bbox[1]
        height    == bbox[4] - bbox[2]
        area      == width * height
        img_area  == size[1] * size[2]
        relative_area == <<area, img_area>>
        aspect_ratio  == <<Max2(width, height), Min2(width, height)>>
        defect_type_lower == Lower(defect_type)
    IN  IF img_area = 0 THEN Raise("ZeroDivisionError")
        ELSE IF Min2(width, height) = 0 THEN Raise("ZeroDivisionError")
        ELSE IF \E q \in DOMAIN processed : \E k \in DOMAIN processed[q] :
                    processed[q][k].severity = "High"
             THEN Return("High", "Escalated after an earlier high severity defect")
        ELSE IF defect_type_lower = "crack"
             THEN AssessCrack(relative_area, width, height, aspect_ratio, confidence)
        ELSE IF defect_type_lower = "corrosion"
             THEN AssessCorrosion(relative_area, area, confidence)
        ELSE IF defect_type_lower = "spalling"
             THEN AssessSpalling(relative_area, area, confidence)
        ELSE Return("Medium", "Unknown defect type, defaulting to Medium severity")

(***************************************************************************)
(* SeverityAssessor.assess_severity.  bbox is <<x1, y1, x2, y2>>, size is   *)
(* image.size = <<width, height>>.  The two divisions come first, in the    *)
(* code's order, and either raises ZeroDivisionError on a zero divisor; the *)
(* dispatch on the lower-cased type follows.                                *)
(***************************************************************************)
AssessSeverity(defect_type, bbox, size, confidence) ==
    LET width     == bbox[3] - bbox[1]
        height    == bbox[4] - bbox[2]
        area      == width * height
        img_area  == size[1] * size[2]
        relative_area == <<area, img_area>>
        aspect_ratio  == <<Max2(width, height), Min2(width, height)>>
        defect_type_lower == Lower(defect_type)
    IN  IF img_area = 0 THEN Raise("ZeroDivisionError")
        ELSE IF Min2(width, height) = 0 THEN Raise("ZeroDivisionError")
        ELSE IF defect_type_lower = "crack"
             THEN AssessCrack(relative_area, width, height, aspect_ratio, confidence)
        ELSE IF defect_type_lower = "corrosion"
             THEN AssessCorrosion(relative_area, area, confidence)
        ELSE IF defect_type_lower = "spalling"
             THEN AssessSpalling(relative_area, area, confidence)
        ELSE Return("Medium", "Unknown defect type, defaulting to Medium severity")

(***************************************************************************)
(* Input domain of the assess_severity study: box sides on a 40 pixel grid  *)
(* plus the sides that put a box exactly on an area or length threshold,    *)
(* boxes inside the image, images that include the two degenerate sizes.    *)
(***************************************************************************)
Sides == {40 * k : k \in 0..MaxSide} \cup {20, 150, 250, 300, 375}
Origins == {<<0, 0>>, <<10, 20>>}
ImageSizes == {<<800, 800>>, <<640, 400>>, <<640, 480>>, <<0, 480>>, <<640, 0>>}
Confidences == {0, 2500, 7000, 7400, 7500, 7600, 8000, 9000, 10000}

AssessInputs ==
    { [defect_type |-> t, bbox |-> <<o[1], o[2], o[1] + w, o[2] + h>>,
       size |-> s, confidence |-> c] :
        t \in TypeNames, o \in Origins, w \in Sides, h \in Sides,
        s \in ImageSizes, c \in Confidences }

InImage(a) == a.bbox[3] <= a.size[1] /\ a.bbox[4] <= a.size[2]

(***************************************************************************)
(* VisionLanguageModel.generate_simple_explanation: the rule-based table,   *)
(* keyed by the lower-cased type and the severity, and the generic pair for *)
(* a key the table lacks.                                                   *)
(***************************************************************************)
Explained(e, a) == [explanation |-> e, recommended_action |-> a]

explanations ==
    [t \in {"crack", "corrosion", "spalling"} |->
      [v \in {"High", "Medium", "Low"} |->
        CASE t = "crack" /\ v = "High" -> Explained(
               "Significant linear discontinuity detected in structural element. The crack extent suggests potential load path disruption or material fatigue. Location and propagation pattern indicate need for immediate structural assessment.",
               "Conduct detailed structural evaluation including load capacity analysis. Consider temporary shoring if needed. Implement crack monitoring system and develop repair specifications with licensed structural engineer.")
          [] t = "crack" /\ v = "Medium" -> Explained(
               "Moderate crack formation observed in structural component. The defect exhibits characteristics of early-stage material degradation or settlement-induced stress. Current extent suggests localized rather than systemic issue.",
               "Install crack width monitoring gauges. Perform material testing to determine cause. Schedule repair using appropriate epoxy injection or routing and sealing within next maintenance cycle.")
          [] t = "crack" /\ v = "Low" -> Explained(
               "Minor surface crack detected. Defect appears superficial with limited propagation. Likely caused by shrinkage, thermal stress, or minor settlement. No immediate structural concern evident.",
               "Document crack location and dimensions. Apply surface sealant to prevent moisture ingress. Schedule for re-inspection in 6-12 months to monitor for progression.")
          [] t = "corrosion" /\ v = "High" -> Explained(
               "Advanced corrosion detected with evidence of significant material loss. The deterioration pattern suggests prolonged exposure to corrosive environment. Potential for reduced load-bearing capacity and progressive structural degradation.",
               "Immediate structural assessment required. Perform material thickness testing and load capacity evaluation. Implement corrosion protection system. Plan for member replacement or structural reinforcement as engineering analysis dictates.")
          [] t = "corrosion" /\ v = "Medium" -> Explained(
               "Moderate corrosion identified on structural surface. Observable oxidation with partial material degradation. Current state indicates active corrosion process requiring intervention to prevent acceleration.",
               "Remove corrosion products and assess remaining material thickness. Apply protective coating system per SSPC standards. Improve drainage or ventilation to eliminate moisture source. Monitor quarterly for progression.")
          [] t = "corrosion" /\ v = "Low" -> Explained(
               "Surface-level corrosion detected with minimal material loss. Early-stage oxidation present, primarily affecting protective coating or superficial material layers. Structural integrity currently maintained.",
               "Clean affected area and apply corrosion inhibitor. Restore protective coating system. Address moisture source if identified. Include in routine inspection schedule.")
          [] t = "spalling" /\ v = "High" -> Explained(
               "Extensive concrete spalling with visible material loss detected. Defect severity suggests potential reinforcement exposure or advanced deterioration. Pattern indicates freeze-thaw damage, corrosion-induced pressure, or alkali-silica reaction.",
               "Urgent engineering assessment required. Remove loose material and inspect for reinforcement corrosion. Perform concrete strength testing. Execute structural repair using compatible materials per ACI 546 guidelines. Address root cause of deterioration.")
          [] t = "spalling" /\ v = "Medium" -> Explained(
               "Moderate spalling observed with measurable concrete delamination. Surface layer failure evident, potentially due to reinforcement corrosion, freeze-thaw cycles, or construction defects. Underlying structure requires verification.",
               "Remove delaminated concrete and assess extent of damage. Test for chloride content and carbonation depth. Repair using polymer-modified concrete or appropriate patching material. Implement preventive measures for underlying cause.")
          [] t = "spalling" /\ v = "Low" -> Explained(
               "Minor surface spalling detected affecting concrete cover. Limited material loss observed, likely due to localized impact, minor freeze-thaw action, or finishing issues. Structural reinforcement not compromised.",
               "Remove loose material and clean surface. Apply concrete patching compound for affected areas. Seal surface to prevent moisture penetration. Monitor during regular inspections.")]]

\* f"{severity} severity {defect_type} detected requiring engineering assessment."
\* for the types outside the table, which assess_severity makes Medium.
GenericExplanation(defect_type, sev) ==
    CASE defect_type = "rust_stain" /\ sev = "Medium" ->
           "Medium severity rust_stain detected requiring engineering assessment."
      [] defect_type = "Rust_Stain" /\ sev = "Medium" ->
           "Medium severity Rust_Stain detected requiring engineering assessment."

GenerateSimpleExplanation(defect_type, sev) ==
    LET defect_type_lower == Lower(defect_type) IN
    IF defect_type_lower \in DOMAIN explanations
       /\ sev \in DOMAIN explanations[defect_type_lower]
    THEN explanations[defect_type_lower][sev]
    ELSE Explained(GenericExplanation(defect_type, sev),
                   "Consult with licensed structural engineer for evaluation and repair recommendations.")

(***************************************************************************)
(* VisionLanguageModel.generate_explanation.  The text BLIP-2 generates is  *)
(* opaque; generation is deterministic (do_sample=False), and the model     *)
(* keeps one text per prompt, the prompt being fixed by severity.lower()    *)
(* and the type.  The call can also raise (see ExplainRaise).               *)
(***************************************************************************)
GenerateExplanation(region, defect_type, sev) ==
    CASE sev = "High" ->
           Explained("<BLIP-2 answer: high severity condition>", "<BLIP-2 answer: high severity action>")
      [] sev = "Medium" ->
           Explained("<BLIP-2 answer: medium severity condition>", "<BLIP-2 answer: medium severity action>")
      [] sev = "Low" ->
           Explained("<BLIP-2 answer: low severity condition>", "<BLIP-2 answer: low severity action>")

\* DefectDetector.crop_defect_region with its default padding of 20 pixels:
\* the box grown by the padding and clamped to the image.
CropDefectRegion(size, bbox) ==
    <<Max2(0, bbox[1] - 20), Max2(0, bbox[2] - 20),
      Min2(size[1], bbox[3] + 20), Min2(size[2], bbox[4] + 20)>>

(***************************************************************************)
(* round(confidence, 3) on a count of 1/10000: to the nearest multiple of   *)
(* 10, a tie going to the even thousandth.                                  *)
(***************************************************************************)
Round3(c) ==
    LET r == c % 10
        down == c - r
    IN  IF r < 5 THEN down
        ELSE IF r > 5 THEN down + 10
        ELSE IF (down \div 10) % 2 = 0 THEN down ELSE down + 10

(***************************************************************************)
(* What the detector can return.  DefectDetector.detect is opaque: any list *)
(* of up to MaxDet detections, each with a type among crack, corrosion and  *)
(* spalling (_map_class_to_defect), a confidence and a box with x1 <= x2,   *)
(* y1 <= y2 inside the image.  The pool holds a long crack (High), a small  *)
(* corrosion patch (Low), a spalled area (Medium) and a box of zero width.  *)
(***************************************************************************)
Detection(t, c, b) == [class_name |-> t, confidence |-> c, bbox |-> b]

DetectionPool ==
    { Detection("crack", 9104, <<100, 100, 500, 120>>),
      Detection("corrosion", 5006, <<10, 10, 60, 60>>),
      Detection("spalling", 8004, <<200, 200, 320, 300>>),
      Detection("spalling", 6200, <<50, 50, 50, 90>>) }

RECURSIVE ListsUpTo(_, _)
ListsUpTo(S, n) ==
    IF n = 0 THEN {<<>>}
    ELSE LET shorter == ListsUpTo(S, n - 1)
         IN  shorter \cup {Append(l, x) : l \in {m \in shorter : Len(m) = n - 1}, x \in S}

DetectorOutputs == ListsUpTo(DetectionPool, MaxDet)

Requests == 1..MaxReq

(***************************************************************************)
(* Responses of POST /inspect.  code 0 is "not answered yet".  A report is  *)
(* an InspectionResponse; an error is an HTTPException with its detail.     *)
(* A summary is the sequence of the pieces its text is joined from.         *)
(***************************************************************************)
NoResponse ==
    [code |-> 0, status |-> "", detections |-> <<>>, total_defects |-> 0,
     summary |-> <<>>, detail |-> ""]
HttpError(code, detail) ==
    [code |-> code, status |-> "error", detections |-> <<>>, total_defects |-> 0,
     summary |-> <<>>, detail |-> detail]
InspectionResponse(dets, total, summary) ==
    [code |-> 200, status |-> "success", detections |-> dets, total_defects |-> total,
     summary |-> summary, detail |-> ""]

\* f"Inspection failed: {str(e)}"
FailureDetail(e) ==
    CASE e = "ZeroDivisionError" -> "Inspection failed: float division by zero"
      [] e = "UnidentifiedImageError" ->
           "Inspection failed: cannot identify image file <_io.BytesIO object>"
      [] e = "ConstructionError" -> "Inspection failed: <model loading error>"
      [] e = "DetectorError" -> "Inspection failed: <detector error>"
      [] e = "ExplanationError" -> "Inspection failed: <BLIP-2 error>"

\* f"Invalid file type: {file.content_type}. Please upload an image file."
InvalidTypeDetail(ct) ==
    CASE ct = "text/plain" -> "Invalid file type: text/plain. Please upload an image file."

\* str(n) and str.capitalize() on the values that occur, and the plural "s".
Str(n) == <<"0", "1", "2", "3", "4", "5", "6", "7", "8", "9">>[n + 1]
Capitalize(t) ==
    CASE Lower(t) = "crack" -> "Crack"
      [] Lower(t) = "corrosion" -> "Corrosion"
      [] Lower(t) = "spalling" -> "Spalling"
      [] Lower(t) = "rust_stain" -> "Rust_stain"
Plural(word) ==
    CASE word = "Crack" -> "Cracks"
      [] word = "Corrosion" -> "Corrosions"
      [] word = "Spalling" -> "Spallings"
      [] word = "Rust_stain" -> "Rust_stains"

\* The keys of a dict filled in list order: each value once, by first occurrence.
RECURSIVE KeysInOrder(_)
KeysInOrder(seq) ==
    IF seq = <<>> THEN <<>>
    ELSE LET front == KeysInOrder(SubSeq(seq, 1, Len(seq) - 1))
             x == seq[Len(seq)]
         IN  IF \E i \in DOMAIN front : front[i] = x THEN front ELSE Append(front, x)
Count(seq, x) == Cardinality({i \in DOMAIN seq : seq[i] = x})

\* ", ".join(items), each item a sequence of pieces.
RECURSIVE Join(_)
Join(items) ==
    IF items = <<>> THEN <<>>
    ELSE IF Len(items) = 1 THEN items[1]
    ELSE items[1] \o <<",">> \o Join(Tail(items))

\* A summary that lists the severity levels from Low up.
GenerateSummaryLowFirst(dets) ==
    LET total == Len(dets)
        sevs  == [i \in DOMAIN dets |-> dets[i].severity]
        types == [i \in DOMAIN dets |-> Capitalize(dets[i].defect_type)]
        keys  == KeysInOrder(types)
        defect_list ==
            [i \in DOMAIN keys |->
                LET count == Count(types, keys[i])
                IN  <<Str(count), IF count > 1 THEN Plural(keys[i]) ELSE keys[i]>>]
        levels == <<"Low", "Medium", "High">>
        present == SelectSeq(levels, LAMBDA v : Count(sevs, v) > 0)
        severity_list == [i \in DOMAIN present |-> <<Str(Count(sevs, present[i])), present[i]>>]
    IN  IF total = 0 THEN <<"Inspection completed. No defects detected.">>
        ELSE <<"Inspection completed.", Str(total),
               IF total > 1 THEN "defects" ELSE "defect", "detected.">>
             \o <<"Types:">> \o Join(defect_list) \o <<".">>
             \o (IF severity_list # <<>>
                 THEN <<"Severity:">> \o Join(severity_list) \o <<".">> ELSE <<>>)
             \o (IF Count(sevs, "High") > 0
                 THEN <<"Immediate engineering assessment recommended for high severity defects.">>
                 ELSE <<>>)

\* InspectionService._generate_summary
GenerateSummary(dets) ==
    LET total == Len(dets)
        sevs  == [i \in DOMAIN dets |-> dets[i].severity]
        types == [i \in DOMAIN dets |-> Capitalize(dets[i].defect_type)]
        keys  == KeysInOrder(types)
        defect_list ==
            [i \in DOMAIN keys |->
                LET count == Count(types, keys[i])
                IN  <<Str(count), IF count > 1 THEN Plural(keys[i]) ELSE keys[i]>>]
        levels == <<"High", "Medium", "Low">>
        present == SelectSeq(levels, LAMBDA v : Count(sevs, v) > 0)
        severity_list == [i \in DOMAIN present |-> <<Str(Count(sevs, present[i])), present[i]>>]
    IN  IF total = 0 THEN <<"Inspection completed. No defects detected.">>
        ELSE <<"Inspection completed.", Str(total),
               IF total > 1 THEN "defects" ELSE "defect", "detected.">>
             \o <<"Types:">> \o Join(defect_list) \o <<".">>
             \o (IF severity_list # <<>>
                 THEN <<"Severity:">> \o Join(severity_list) \o <<".">> ELSE <<>>)
             \o (IF Count(sevs, "High") > 0
                 THEN <<"Immediate engineering assessment recommended for high severity defects.">>
                 ELSE <<>>)

\* A report whose summary counts the (zero) defects instead of the fixed text.
EmptyReportCounted ==
    InspectionResponse(<<>>, 0, <<"Inspection completed.", "0", "defects", "detected.">>)

\* InspectionService.inspect_image, the return for an empty detection list.
EmptyReport ==
    InspectionResponse(<<>>, 0, <<"Inspection completed. No defects detected.">>)

\* A report that counts the distinct defect types.
FullReportDistinct(processed_detections) ==
    InspectionResponse(processed_detections,
                       Cardinality({processed_detections[i].defect_type :
                                       i \in DOMAIN processed_detections}),
                       GenerateSummary(processed_detections))

\* InspectionService.inspect_image, the return after the loop.
FullReport(processed_detections) ==
    InspectionResponse(processed_detections, Len(processed_detections),
                       GenerateSummary(processed_detections))

\* The new entry put in front of the list.
PrependProcessed(processed_detections, entry) == <<entry>> \o processed_detections

\* processed_detections.append(processed)
AppendProcessed(processed_detections, entry) == Append(processed_detections, entry)

\* InspectionService._process_detection: the DefectDetection it builds.
DefectDetection(detection, sev, out) ==
    [defect_type |-> detection.class_name,
     confidence |-> Round3(detection.confidence),
     severity |-> sev.severity,
     severity_reasoning |-> sev.reasoning,
     bounding_box |-> detection.bbox,
     explanation |-> out.explanation,
     recommended_action |-> out.recommended_action]

\* Step 3 without the test of the flag: the model-backed provider in both modes.
ExplanationAlwaysModel(use_vlm, size, detection, sev) ==
    GenerateExplanation(CropDefectRegion(size, detection.bbox),
                        detection.class_name, sev.severity)

\* InspectionService._process_detection, step 3: the provider's answer, by mode.
Explanation(use_vlm, size, detection, sev) ==
    IF use_vlm
    THEN GenerateExplanation(CropDefectRegion(size, detection.bbox),
                             detection.class_name, sev.severity)
    ELSE GenerateSimpleExplanation(detection.class_name, sev.severity)

(***************************************************************************)
(* The event loop.  The handler is a coroutine on one event loop: between   *)
(* two points where it really suspends it runs alone.  await file.read()    *)
(* can suspend (an upload spooled to disk is read in a worker thread); the  *)
(* calls of detect, assess_severity and the explanation provider are plain  *)
(* calls, and awaiting the coroutines inspect_image and _process_detection, *)
(* which never suspend themselves, does not give up the loop.               *)
(***************************************************************************)
\* Every model call handed to a worker thread and awaited.
SuspendsInThreadpool(call) == call \in {"file.read", "detect", "explain"}

Suspends(call) == call = "file.read"

\* r's handler may take its next step after `call`.
Scheduled(r, call) == running = r \/ (running = 0 /\ Suspends(call))

ContentTypes == {"image/jpeg", "text/plain"}
IsImageType(ct) == ct \in {"image/jpeg", "image/png"}
Bodies == {"empty", "corrupt", "image"}
UploadSizes == {<<640, 480>>}
\* inspect.py passes use_vlm=False and documents True as the other setting.
UseVlmArgs == BOOLEAN

\* detect / assess / explain count the calls made for the request; returned says
\* that detect returned a list; explain_raised holds the positions (in the
\* detector's list) of the detections whose explanation call raised.
NoCalls == [detect |-> 0, returned |-> FALSE, assess |-> 0, explain |-> 0,
            explain_raised |-> {}]

\* health_check's return value, and no value.
HealthBody == [status |-> "healthy", service |-> "Infrastructure Inspection API",
               version |-> "1.0.0"]
NoHealth == [status |-> "", service |-> "", version |-> ""]

InitPipe ==
    /\ inspection_service = [is_none |-> TRUE, use_vlm |-> FALSE, built |-> 0]
    /\ running = 0
    /\ pc = [r \in Requests |-> "new"]
    /\ upload = [r \in Requests |-> [content_type |-> "", body |-> "unread"]]
    /\ image = [r \in Requests |-> <<0, 0>>]
    /\ detections = [r \in Requests |-> <<>>]
    /\ severity = [r \in Requests |-> NoCall]
    /\ processed = [r \in Requests |-> <<>>]
    /\ response = [r \in Requests |-> NoResponse]
    /\ det_in_flight = {}
    /\ expl_in_flight = {}
    /\ calls = [r \in Requests |-> NoCalls]
    /\ aborted = [r \in Requests |-> 0]
    /\ health = NoHealth

\* The handler ends with a report or an HTTPException; the answer is written
\* out by the same task before it leaves the event loop (see Close).
Answer(r, resp) ==
    /\ response' = [response EXCEPT ![r] = resp]
    /\ pc' = [pc EXCEPT ![r] = "done"]
    /\ running' = r

\* The handler goes on to `next`, keeping the event loop.
Goto(r, next) ==
    /\ pc' = [pc EXCEPT ![r] = next]
    /\ running' = r
    /\ UNCHANGED response

\* api inspect_image: the content type test, up to await file.read().
Validate(r) ==
    /\ pc[r] = "new" /\ running = 0
    /\ \E ct \in ContentTypes :
         /\ upload' = [upload EXCEPT ![r].content_type = ct]
         /\ IF ~IsImageType(ct)
            THEN Answer(r, HttpError(400, InvalidTypeDetail(ct)))
            ELSE Goto(r, "read")
    /\ UNCHANGED <<inspection_service, image, detections, severity, processed,
                   det_in_flight, expl_in_flight, calls>>
    /\ UNCHANGED <<aborted, health>>
    /\ UNCHANGED assessVars

\* await file.read() suspends the handler; the loop is free for other requests.
ReadSuspend(r) ==
    /\ pc[r] = "read" /\ running = r /\ Suspends("file.read")
    /\ pc' = [pc EXCEPT ![r] = "reading"]
    /\ running' = 0
    /\ UNCHANGED <<inspection_service, upload, image, detections, severity, processed,
                   response, det_in_flight, expl_in_flight, calls>>
    /\ UNCHANGED <<aborted, health>>
    /\ UNCHANGED assessVars

\* file.read() returns the body; the empty-body test.
ReadBody(r) ==
    /\ \/ pc[r] = "read" /\ running = r
       \/ pc[r] = "reading" /\ running = 0
    /\ \E b \in Bodies :
         /\ upload' = [upload EXCEPT ![r].body = b]
         /\ IF b = "empty"
            THEN Answer(r, HttpError(400, "Empty file uploaded"))
            ELSE Goto(r, "get_service")
    /\ UNCHANGED <<inspection_service, image, detections, severity, processed,
                   det_in_flight, expl_in_flight, calls>>
    /\ UNCHANGED <<aborted, health>>
    /\ UNCHANGED assessVars

\* A lookup that builds a fresh service on every call.
GetServiceFresh(r) ==
    /\ pc[r] = "get_service" /\ running = r
    /\ \E u \in UseVlmArgs :
         inspection_service' = [is_none |-> FALSE, use_vlm |-> u,
                                built |-> inspection_service.built + 1]
    /\ Goto(r, "open")
    /\ UNCHANGED <<upload, image, detections, severity, processed,
                   det_in_flight, expl_in_flight, calls>>
    /\ UNCHANGED <<aborted, health>>
    /\ UNCHANGED assessVars

\* get_inspection_service, with InspectionService.__init__ on the first call.
GetService(r) ==
    /\ pc[r] = "get_service" /\ running = r
    /\ IF inspection_service.is_none
       THEN \E u \in UseVlmArgs :
              inspection_service' = [is_none |-> FALSE, use_vlm |-> u,
                                     built |-> inspection_service.built + 1]
       ELSE UNCHANGED inspection_service
    /\ Goto(r, "open")
    /\ UNCHANGED <<upload, image, detections, severity, processed,
                   det_in_flight, expl_in_flight, calls>>
    /\ UNCHANGED <<aborted, health>>
    /\ UNCHANGED assessVars

\* InspectionService.__init__ raises (the weights cannot be loaded): the
\* singleton stays None and the handler's except clause answers 500.
GetServiceRaise(r) ==
    /\ pc[r] = "get_service" /\ running = r
    /\ inspection_service.is_none
    /\ Answer(r, HttpError(500, FailureDetail("ConstructionError")))
    /\ UNCHANGED <<inspection_service, upload, image, detections, severity, processed,
                   det_in_flight, expl_in_flight, calls>>
    /\ UNCHANGED <<aborted, health>>
    /\ UNCHANGED assessVars

\* The bytes handed to the detector before they are decoded.
OpenImageAfterDetect(r) ==
    /\ pc[r] = "open" /\ running = r
    /\ calls' = [calls EXCEPT ![r].detect = @ + 1]
    /\ IF upload[r].body = "corrupt"
       THEN /\ Answer(r, HttpError(500, FailureDetail("UnidentifiedImageError")))
            /\ UNCHANGED image
       ELSE /\ \E size \in UploadSizes : image' = [image EXCEPT ![r] = size]
            /\ Goto(r, "detecting")
    /\ UNCHANGED <<inspection_service, upload, detections, severity, processed,
                   det_in_flight, expl_in_flight>>
    /\ UNCHANGED <<aborted, health>>
    /\ UNCHANGED assessVars

\* service inspect_image: Image.open(...).convert("RGB").
OpenImage(r) ==
    /\ pc[r] = "open" /\ running = r
    /\ IF upload[r].body = "corrupt"
       THEN /\ Answer(r, HttpError(500, FailureDetail("UnidentifiedImageError")))
            /\ UNCHANGED image
       ELSE /\ \E size \in UploadSizes : image' = [image EXCEPT ![r] = size]
            /\ Goto(r, "detect")
    /\ UNCHANGED <<inspection_service, upload, detections, severity, processed,
                   det_in_flight, expl_in_flight, calls>>
    /\ UNCHANGED <<aborted, health>>
    /\ UNCHANGED assessVars

\* self.detector.detect(image) is entered.
DetectBegin(r) ==
    /\ pc[r] = "detect" /\ running = r
    /\ det_in_flight' = det_in_flight \cup {r}
    /\ calls' = [calls EXCEPT ![r].detect = @ + 1]
    /\ pc' = [pc EXCEPT ![r] = "detecting"]
    /\ running' = IF Suspends("detect") THEN 0 ELSE r
    /\ UNCHANGED <<inspection_service, upload, image, detections, severity, processed,
                   response, expl_in_flight>>
    /\ UNCHANGED <<aborted, health>>
    /\ UNCHANGED assessVars

\* detect returns its list; an empty list is answered at once.
DetectEnd(r) ==
    /\ pc[r] = "detecting" /\ Scheduled(r, "detect")
    /\ det_in_flight' = det_in_flight \ {r}
    /\ \E dets \in DetectorOutputs :
         /\ detections' = [detections EXCEPT ![r] = dets]
         /\ IF dets = <<>> THEN Answer(r, EmptyReport) ELSE Goto(r, "assess")
    /\ calls' = [calls EXCEPT ![r].returned = TRUE]
    /\ UNCHANGED <<inspection_service, upload, image, severity, processed,
                   expl_in_flight>>
    /\ UNCHANGED <<aborted, health>>
    /\ UNCHANGED assessVars

\* A detector failure taken for "nothing found".
DetectRaiseSwallowed(r) ==
    /\ pc[r] = "detecting" /\ Scheduled(r, "detect")
    /\ det_in_flight' = det_in_flight \ {r}
    /\ Answer(r, EmptyReport)
    /\ UNCHANGED <<inspection_service, upload, image, detections, severity, processed,
                   expl_in_flight, calls>>
    /\ UNCHANGED <<aborted, health>>
    /\ UNCHANGED assessVars

\* detect raises; the handler's except clause answers 500.
DetectRaise(r) ==
    /\ pc[r] = "detecting" /\ Scheduled(r, "detect")
    /\ det_in_flight' = det_in_flight \ {r}
    /\ Answer(r, HttpError(500, FailureDetail("DetectorError")))
    /\ UNCHANGED <<inspection_service, upload, image, detections, severity, processed,
                   expl_in_flight, calls>>
    /\ UNCHANGED <<aborted, health>>
    /\ UNCHANGED assessVars

\* _process_detection, step 2, for the next detection of the list.
Assess(r) ==
    /\ pc[r] = "assess" /\ running = r
    /\ LET detection == detections[r][Len(processed[r]) + 1]
           result == AssessSeverity(detection.class_name, detection.bbox, image[r],
                                    detection.confidence)
       IN  /\ calls' = [calls EXCEPT ![r].assess = @ + 1]
           /\ IF result.kind = "raise"
              THEN /\ Answer(r, HttpError(500, FailureDetail(result.exc)))
                   /\ UNCHANGED severity
              ELSE /\ severity' = [severity EXCEPT ![r] = result]
                   /\ Goto(r, "explain")
    /\ UNCHANGED <<inspection_service, upload, image, detections, processed,
                   det_in_flight, expl_in_flight>>
    /\ UNCHANGED <<aborted, health>>
    /\ UNCHANGED assessVars

\* _process_detection, step 3: the explanation provider is entered.
ExplainBegin(r) ==
    /\ pc[r] = "explain" /\ running = r
    /\ expl_in_flight' = expl_in_flight \cup {r}
    /\ calls' = [calls EXCEPT ![r].explain = @ + 1]
    /\ pc' = [pc EXCEPT ![r] = "explaining"]
    /\ running' = IF Suspends("explain") THEN 0 ELSE r
    /\ UNCHANGED <<inspection_service, upload, image, detections, severity, processed,
                   response, det_in_flight>>
    /\ UNCHANGED <<aborted, health>>
    /\ UNCHANGED assessVars

\* The provider returns; the entry is built and appended; the loop goes on or ends.
ExplainEnd(r) ==
    /\ pc[r] = "explaining" /\ Scheduled(r, "explain")
    /\ expl_in_flight' = expl_in_flight \ {r}
    /\ LET detection == detections[r][Len(processed[r]) + 1]
           out == Explanation(inspection_service.use_vlm, image[r], detection, severity[r])
           list == AppendProcessed(processed[r], DefectDetection(detection, severity[r], out))
       IN  /\ processed' = [processed EXCEPT ![r] = list]
           /\ Goto(r, IF Len(list) = Len(detections[r]) THEN "summarize" ELSE "assess")
    /\ UNCHANGED <<inspection_service, upload, image, detections, severity,
                   det_in_flight, calls>>
    /\ UNCHANGED <<aborted, health>>
    /\ UNCHANGED assessVars

\* The model-backed provider raises; nothing in _process_detection or
\* inspect_image catches it, and the handler's except clause answers 500.
ExplainRaise(r) ==
    /\ pc[r] = "explaining" /\ Scheduled(r, "explain")
    /\ inspection_service.use_vlm
    /\ expl_in_flight' = expl_in_flight \ {r}
    /\ calls' = [calls EXCEPT ![r].explain_raised = @ \cup {Len(processed[r]) + 1}]
    /\ Answer(r, HttpError(500, FailureDetail("ExplanationError")))
    /\ UNCHANGED <<inspection_service, upload, image, detections, severity, processed,
                   det_in_flight>>
    /\ UNCHANGED <<aborted, health>>
    /\ UNCHANGED assessVars

\* The summary and the report; the handler returns it.
Respond(r) ==
    /\ pc[r] = "summarize" /\ running = r
    /\ Answer(r, FullReport(processed[r]))
    /\ UNCHANGED <<inspection_service, upload, image, detections, severity, processed,
                   det_in_flight, expl_in_flight, calls>>
    /\ UNCHANGED <<aborted, health>>
    /\ UNCHANGED assessVars

\* The answer has been sent and the task ends: everything the request created
\* is dropped (nothing persists beyond the request), the event loop is free,
\* and the connection can carry the next request.
Close(r) ==
    /\ pc[r] = "done" /\ running = r
    /\ running' = 0
    /\ pc' = [pc EXCEPT ![r] = "new"]
    /\ upload' = [upload EXCEPT ![r] = [content_type |-> "", body |-> "unread"]]
    /\ image' = [image EXCEPT ![r] = <<0, 0>>]
    /\ detections' = [detections EXCEPT ![r] = <<>>]
    /\ severity' = [severity EXCEPT ![r] = NoCall]
    /\ processed' = [processed EXCEPT ![r] = <<>>]
    /\ response' = [response EXCEPT ![r] = NoResponse]
    /\ calls' = [calls EXCEPT ![r] = NoCalls]
    /\ UNCHANGED <<inspection_service, det_in_flight, expl_in_flight>>
    /\ aborted' = [aborted EXCEPT ![r] = 0]
    /\ UNCHANGED health
    /\ UNCHANGED assessVars

\* The caller hangs up while the loop over the detections is at detection
\* Len(processed) + 1.  Nothing in the handler or in the pipeline looks at the
\* connection, and the loop has no point at which a cancellation could be
\* delivered, so the code's steps are the same with and without this.
Abort(r) ==
    /\ pc[r] \in {"assess", "explain", "explaining"}
    /\ aborted[r] = 0
    /\ aborted' = [aborted EXCEPT ![r] = Len(processed[r]) + 1]
    /\ UNCHANGED <<inspection_service, running, pc, upload, image, detections,
                   severity, processed, response, det_in_flight, expl_in_flight,
                   calls, health>>
    /\ UNCHANGED assessVars

\* A health check that looks the service up before it answers.
HealthCheckProbing ==
    /\ running = 0 /\ health = NoHealth
    /\ health' = HealthBody
    /\ inspection_service' =
          IF inspection_service.is_none
          THEN [is_none |-> FALSE, use_vlm |-> FALSE,
                built |-> inspection_service.built + 1]
          ELSE inspection_service
    /\ UNCHANGED <<running, pc, upload, image, detections, severity, processed,
                   response, det_in_flight, expl_in_flight, calls, aborted>>
    /\ UNCHANGED assessVars

\* api health_check: one synchronous step on the event loop that returns the
\* fixed body.
HealthCheck ==
    /\ running = 0 /\ health = NoHealth
    /\ health' = HealthBody
    /\ UNCHANGED <<inspection_service, running, pc, upload, image, detections,
                   severity, processed, response, det_in_flight, expl_in_flight,
                   calls, aborted>>
    /\ UNCHANGED assessVars

\* The health answer has been sent.
HealthClose ==
    /\ health # NoHealth
    /\ health' = NoHealth
    /\ UNCHANGED <<inspection_service, running, pc, upload, image, detections,
                   severity, processed, response, det_in_flight, expl_in_flight,
                   calls, aborted>>
    /\ UNCHANGED assessVars

Handler(r) ==
    \/ Validate(r)
    \/ ReadSuspend(r)
    \/ ReadBody(r)
    \/ GetService(r)
    \/ GetServiceRaise(r)
    \/ OpenImage(r)
    \/ DetectBegin(r)
    \/ DetectEnd(r)
    \/ DetectRaise(r)
    \/ Assess(r)
    \/ ExplainBegin(r)
    \/ ExplainEnd(r)
    \/ ExplainRaise(r)
    \/ Respond(r)
    \/ Close(r)
    \/ Abort(r)

IdleArgs == [defect_type |-> "crack", bbox |-> <<0, 0, 0, 0>>, size |-> <<0, 0>>,
             confidence |-> 0]

Init == InitPipe /\ as_args = IdleArgs /\ as_result = NoCall

Next ==
    \/ \E r \in Requests : Handler(r)
    \/ HealthCheck
    \/ HealthClose

Spec == Init /\ [][Next]_vars

InitAssess ==
    /\ as_args \in {a \in AssessInputs : InImage(a)}
    /\ as_result = NoCall
    /\ InitPipe

\* One call of assess_severity on the chosen arguments.
AssessCall ==
    /\ as_result.kind = "none"
    /\ as_result' = AssessSeverity(as_args.defect_type, as_args.bbox,
                                   as_args.size, as_args.confidence)
    /\ UNCHANGED as_args
    /\ UNCHANGED pipeVars

NextAssess == AssessCall

SpecAssess == InitAssess /\ [][NextAssess]_vars

(***************************************************************************)
(*                     Claims about assess_severity                        *)
(*                                                                         *)
(* The quantities the rule ladders are stated in, read off the arguments   *)
(* of the call: relativeArea = area / imageArea, aspectRatio = max / min,  *)
(* compared as rationals.                                                   *)
(***************************************************************************)
ArgWidth == as_args.bbox[3] - as_args.bbox[1]
ArgHeight == as_args.bbox[4] - as_args.bbox[2]
ArgArea == ArgWidth * ArgHeight
ArgImageArea == as_args.size[1] * as_args.size[2]
ArgMaxDimension == IF ArgWidth >= ArgHeight THEN ArgWidth ELSE ArgHeight
ArgMinDimension == IF ArgWidth >= ArgHeight THEN ArgHeight ELSE ArgWidth
RelativeAreaOver(n, d) == ArgArea * d > n * ArgImageArea
RelativeAreaIs(n, d) == ArgArea * d = n * ArgImageArea
AspectRatioOver(k) == ArgMaxDimension > k * ArgMinDimension
AspectRatioIs(k) == ArgMaxDimension = k * ArgMinDimension
Returned == as_result.kind = "return"
Outcome == <<as_result.severity, as_result.reasoning>>

\* The first rule of a ladder that matches; a ladder ends with a rule that
\* always matches.
FirstMatch(rules) ==
    rules[CHOOSE i \in 1..Len(rules) :
            rules[i].hit /\ \A j \in 1..(i - 1) : ~rules[j].hit]
OutcomeOf(rule) == <<rule.level, rule.reason>>

CrackLadder ==
    << [hit |-> AspectRatioOver(8) /\ RelativeAreaOver(5, 100), level |-> "High",
        reason |-> "Long crack with significant extent, potential structural concern"],
       [hit |-> RelativeAreaOver(15, 100), level |-> "High",
        reason |-> "Large crack covering substantial area, requires immediate attention"],
       [hit |-> ArgMaxDimension > 300 /\ AspectRatioOver(5), level |-> "High",
        reason |-> "Extensive linear crack, may indicate structural movement"],
       [hit |-> RelativeAreaOver(3, 100) \/ (AspectRatioOver(4) /\ ArgMaxDimension > 150),
        level |-> "Medium",
        reason |-> "Moderate crack requiring monitoring and potential repair"],
       [hit |-> as_args.confidence > 8000 /\ RelativeAreaOver(1, 100), level |-> "Medium",
        reason |-> "Clearly visible crack, should be assessed by engineer"],
       [hit |-> TRUE, level |-> "Low",
        reason |-> "Small localized crack, likely superficial but should be documented"] >>

\* C6: for a crack, the severity and reasoning that assess_severity returns are
\* those of the first matching rule of the crack ladder, every comparison
\* strict; a crack with aspectRatio exactly 8 and relativeArea exactly 0.05 is
\* not decided by rule 1.
C6_CrackFirstMatch ==
    (Returned /\ as_args.defect_type \in {"crack", "Crack"}) =>
        /\ Outcome = OutcomeOf(FirstMatch(CrackLadder))
        /\ (AspectRatioIs(8) /\ RelativeAreaIs(5, 100)) =>
              /\ Outcome # OutcomeOf(CrackLadder[1])
              /\ Outcome \in {OutcomeOf(CrackLadder[i]) : i \in 2..6}

\* A crack exactly on the rule-1 boundary was assessed, and a later rule (the
\* third) decided it.
C6_Witness ==
    /\ Returned
    /\ as_args.defect_type = "Crack"
    /\ AspectRatioIs(8) /\ RelativeAreaIs(5, 100)
    /\ Outcome = OutcomeOf(CrackLadder[3])

CorrosionLadder ==
    << [hit |-> RelativeAreaOver(12, 100), level |-> "High",
        reason |-> "Extensive corrosion with likely material degradation, immediate assessment needed"],
       [hit |-> ArgArea > 50000 /\ as_args.confidence > 7000, level |-> "High",
        reason |-> "Large corroded area indicating advanced deterioration"],
       [hit |-> RelativeAreaOver(4, 100), level |-> "Medium",
        reason |-> "Moderate corrosion present, risk of progression if untreated"],
       [hit |-> ArgArea > 15000, level |-> "Medium",
        reason |-> "Significant corroded area requiring remediation planning"],
       [hit |-> TRUE, level |-> "Low",
        reason |-> "Surface-level corrosion detected, monitor for progression"] >>

\* C7: for corrosion, the returned severity and reasoning are those of the first
\* matching rule of the corrosion ladder; so corrosion with relativeArea > 0.12
\* is High with the rule-1 reasoning whatever the confidence.
C7_CorrosionFirstMatch ==
    (Returned /\ as_args.defect_type \in {"corrosion", "CORROSION"}) =>
        /\ Outcome = OutcomeOf(FirstMatch(CorrosionLadder))
        /\ RelativeAreaOver(12, 100) => Outcome = OutcomeOf(CorrosionLadder[1])

\* Corrosion of relativeArea exactly 0.20 whose size and confidence also match
\* rule 2 was assessed: rule 1 decided it.
C7_Witness ==
    /\ Returned
    /\ as_args.defect_type = "corrosion"
    /\ RelativeAreaIs(20, 100)
    /\ ArgArea > 50000 /\ as_args.confidence > 7000
    /\ Outcome = OutcomeOf(CorrosionLadder[1])

SpallingLadder ==
    << [hit |-> RelativeAreaOver(10, 100), level |-> "High",
        reason |-> "Extensive spalling, possible reinforcement exposure, structural integrity at risk"],
       [hit |-> ArgArea > 40000 /\ as_args.confidence > 7500, level |-> "High",
        reason |-> "Large spalled region indicating concrete deterioration, urgent repair required"],
       [hit |-> RelativeAreaOver(3, 100), level |-> "Medium",
        reason |-> "Moderate spalling with material loss, repair recommended"],
       [hit |-> ArgArea > 10000, level |-> "Medium",
        reason |-> "Significant surface spalling, assess for underlying damage"],
       [hit |-> TRUE, level |-> "Low",
        reason |-> "Minor surface spalling detected, document and monitor"] >>

\* C8: for spalling, the returned severity and reasoning are those of the first
\* matching rule of the spalling ladder.
C8_SpallingFirstMatch ==
    (Returned /\ as_args.defect_type \in {"spalling", "Spalling"}) =>
        Outcome = OutcomeOf(FirstMatch(SpallingLadder))

\* Spalling of area over 40000 with confidence exactly 0.75 was assessed: rule 2
\* did not match and rule 3 made it Medium.
C8_Witness ==
    /\ Returned
    /\ as_args.defect_type = "spalling"
    /\ ArgArea > 40000 /\ as_args.confidence = 7500
    /\ ~RelativeAreaOver(10, 100)
    /\ Outcome = OutcomeOf(SpallingLadder[3])

\* C9: for a defect type other than crack, corrosion or spalling, and any box
\* with x1 <= x2 and y1 <= y2 (zero width or height included) in an image of
\* positive area, assess_severity returns Medium with the unknown-type
\* reasoning and raises nothing.
C9_UnknownTypeNeverRaises ==
    (/\ as_result.kind # "none"
     /\ as_args.defect_type \in {"rust_stain", "Rust_Stain"}
     /\ as_args.bbox[1] <= as_args.bbox[3] /\ as_args.bbox[2] <= as_args.bbox[4]
     /\ ArgImageArea > 0) =>
        /\ Returned
        /\ Outcome = <<"Medium", "Unknown defect type, defaulting to Medium severity">>

\* C10: when the image area is 0, assess_severity raises nothing and returns Low
\* (or Unknown) with a reasoning that notes the degenerate input.
C10_DegenerateImageReturns ==
    (as_result.kind # "none" /\ ArgImageArea = 0) =>
        /\ Returned
        /\ as_result.severity \in {"Low", "Unknown"}
        /\ as_result.reasoning # ""

\* C11: for a box of zero width or zero height in an image of positive area,
\* assess_severity completes and returns a severity, whatever the defect type.
C11_ZeroSideReturns ==
    (/\ as_result.kind # "none"
     /\ (ArgWidth = 0 \/ ArgHeight = 0)
     /\ ArgImageArea > 0) =>
        /\ Returned
        /\ as_result.severity \in {"High", "Medium", "Low"}

\* The example of C12: a crack 400 wide and 20 high in a 640x480 image, seen
\* with confidence 0.9, once assess_severity has been called on it.
C12_Example ==
    /\ as_result.kind # "none"
    /\ as_args.defect_type \in {"crack", "Crack"}
    /\ ArgWidth = 400 /\ ArgHeight = 20
    /\ as_args.size = <<640, 480>>
    /\ as_args.confidence = 9000

\* C12 as stated: the example crack is assessed as Medium.
C12_ExampleIsMedium ==
    C12_Example => (Returned /\ as_result.severity = "Medium")

\* C12: the example crack (aspect ratio 20, longest side 400, relative area
\* under 0.03) is assessed as High by the third crack rule, which comes before
\* the Medium rule that it would also match.
C12_ExampleIsHigh ==
    C12_Example =>
        /\ Returned
        /\ Outcome = <<"High", "Extensive linear crack, may indicate structural movement">>

C12_Witness ==
    /\ C12_Example
    /\ AspectRatioIs(20) /\ ArgMaxDimension = 400 /\ ArgArea = 8000
    /\ ~RelativeAreaOver(3, 100) /\ RelativeAreaOver(2, 100)
    /\ Returned

(***************************************************************************)
(*                      Claims about the pipeline                          *)
(***************************************************************************)
Answered(r) == pc[r] = "done"
Reported(r) == pc[r] = "done" /\ response[r].code = 200

\* C1: if the explanation call raises for exactly one detection i of the N >= 1
\* the detector returned, the request still answers a success report with N
\* entries, entry i carrying the rule-based fallback explanation and action and
\* every other entry being the one a run without failure produces.
C1_FailureIsolation ==
    \A r \in Requests :
        (/\ Answered(r)
         /\ Len(detections[r]) >= 1
         /\ Cardinality(calls[r].explain_raised) = 1) =>
            LET i == CHOOSE k \in calls[r].explain_raised : TRUE
                N == Len(detections[r])
                sevOf(k) == AssessSeverity(detections[r][k].class_name,
                                           detections[r][k].bbox, image[r],
                                           detections[r][k].confidence)
                fallback == GenerateSimpleExplanation(detections[r][i].class_name,
                                                      sevOf(i).severity)
            IN  /\ response[r].code = 200
                /\ response[r].status = "success"
                /\ Len(response[r].detections) = N
                /\ response[r].total_defects = N
                /\ response[r].detections[i].explanation = fallback.explanation
                /\ response[r].detections[i].recommended_action = fallback.recommended_action
                /\ \A k \in (1..N) \ {i} :
                      response[r].detections[k] =
                          DefectDetection(detections[r][k], sevOf(k),
                              Explanation(inspection_service.use_vlm, image[r],
                                          detections[r][k], sevOf(k)))

\* C2: at most one call of the shared detector and at most one call of the
\* shared explanation provider is in flight at any time.
C2_OneCallInFlight ==
    /\ Cardinality(det_in_flight) <= 1
    /\ Cardinality(expl_in_flight) <= 1

\* Two requests overlap: one is inside the explanation provider for its second
\* detection (its detector call is behind it) while the other, already
\* validated, is suspended in the read of its upload.
C2_Witness ==
    \E r1, r2 \in Requests :
        /\ r1 # r2
        /\ r1 \in expl_in_flight
        /\ calls[r1].detect = 1 /\ Len(processed[r1]) = 1
        /\ pc[r2] = "reading"

\* C3: in every report, entry k is built from the detector's k-th detection
\* (same type, same box): nothing reordered, dropped or duplicated.
C3_ReportOrder ==
    \A r \in Requests :
        Reported(r) =>
            /\ Len(response[r].detections) = Len(detections[r])
            /\ \A k \in 1..Len(detections[r]) :
                  /\ response[r].detections[k].defect_type = detections[r][k].class_name
                  /\ response[r].detections[k].bounding_box = detections[r][k].bbox

\* A report of several entries whose first is Low and whose second is High, of
\* different types: an order that sorting by severity or confidence would change.
C3_Witness ==
    \E r \in Requests :
        /\ Reported(r)
        /\ Len(response[r].detections) >= 2
        /\ response[r].detections[1].severity = "Low"
        /\ response[r].detections[2].severity = "High"
        /\ response[r].detections[1].confidence < response[r].detections[2].confidence
        /\ response[r].detections[1].defect_type # response[r].detections[2].defect_type

\* C4: every report has total_defects = len(detections) = the number of
\* detections the detector returned, on the empty and on the non-empty path.
C4_TotalIsLength ==
    \A r \in Requests :
        Reported(r) =>
            /\ response[r].total_defects = Len(response[r].detections)
            /\ response[r].total_defects = Len(detections[r])

\* A report of the non-empty path in which one type occurs twice.
C4_Witness ==
    \E r \in Requests :
        /\ Reported(r)
        /\ response[r].total_defects >= 2
        /\ response[r].detections[1].defect_type = response[r].detections[2].defect_type

\* C5: when the detector returns an empty list, the request is answered with
\* the success report of no entries, total 0 and the fixed summary, and
\* neither assess_severity nor the explanation provider was called for it.
C5_EmptyReport ==
    \A r \in Requests :
        (calls[r].returned /\ detections[r] = <<>>) =>
            /\ Answered(r)
            /\ response[r] = [code |-> 200, status |-> "success", detections |-> <<>>,
                              total_defects |-> 0,
                              summary |-> <<"Inspection completed. No defects detected.">>,
                              detail |-> ""]
            /\ calls[r].assess = 0
            /\ calls[r].explain = 0

\* The detector returned an empty list for a decoded image and the request was
\* answered.
C5_Witness ==
    \E r \in Requests :
        /\ calls[r].returned /\ detections[r] = <<>>
        /\ upload[r].body = "image" /\ calls[r].detect = 1
        /\ Answered(r)

\* The request was turned away for its input: a content type that is not an
\* image, an empty body, or bytes that do not decode.
Rejected(r) ==
    /\ Answered(r)
    /\ \/ ~IsImageType(upload[r].content_type)
       \/ upload[r].body \in {"empty", "corrupt"}

\* C13: a request rejected for its content type, its empty body or its
\* undecodable bytes has made no call to Detector.detect and none to the
\* explanation provider, and is in neither of them: no model call precedes the
\* rejection.
C13_FailFast ==
    \A r \in Requests :
        Rejected(r) =>
            /\ response[r].code # 200
            /\ calls[r].detect = 0 /\ calls[r].explain = 0
            /\ r \notin det_in_flight \cup expl_in_flight

C13_Witness ==
    \E r \in Requests :
        /\ Rejected(r)
        /\ IsImageType(upload[r].content_type) /\ upload[r].body = "corrupt"
        /\ response[r].detail = FailureDetail("UnidentifiedImageError")

\* C14: an upload with an image content type and a non-empty body that does
\* not decode is answered with status 400, not 500 (the service being there to
\* decode it).
C14_DecodeErrorIs400 ==
    \A r \in Requests :
        (/\ Answered(r)
         /\ IsImageType(upload[r].content_type) /\ upload[r].body = "corrupt"
         /\ ~inspection_service.is_none) =>
            response[r].code = 400

\* C15: if Detector.detect raises, the request is answered with status 500 and
\* no report, empty or partial, and neither assess_severity nor the explanation
\* provider is called for it.
C15_DetectFailureIsFatal ==
    \A r \in Requests :
        (Answered(r) /\ calls[r].detect > 0 /\ ~calls[r].returned) =>
            /\ response[r] = HttpError(500, FailureDetail("DetectorError"))
            /\ response[r].status # "success" /\ response[r].detections = <<>>
            /\ calls[r].assess = 0 /\ calls[r].explain = 0
            /\ processed[r] = <<>>

C15_Witness ==
    \E r \in Requests :
        /\ Answered(r) /\ calls[r].detect = 1 /\ ~calls[r].returned
        /\ response[r].code = 500

(***************************************************************************)
(* Reading a summary back.  A summary is the sequence of its pieces; a      *)
(* listing ("Types:" or "Severity:") runs from its heading to the next "."  *)
(* and holds items <<count, word>> separated by ",".                        *)
(***************************************************************************)
UrgencySentence == "Immediate engineering assessment recommended for high severity defects."
FirstAt(seq, tok, from) ==
    CHOOSE i \in from..Len(seq) : seq[i] = tok /\ \A j \in from..(i - 1) : seq[j] # tok
Listing(summary, heading) ==
    LET start == FirstAt(summary, heading, 1)
        stop  == FirstAt(summary, ".", start)
    IN  SubSeq(summary, start + 1, stop - 1)
WellFormedListing(seg) ==
    /\ Len(seg) % 3 = 2
    /\ \A i \in DOMAIN seg : (i % 3 = 0) <=> (seg[i] = ",")
Items(seg) == [i \in 1..((Len(seg) + 1) \div 3) |-> <<seg[3 * i - 2], seg[3 * i - 1]>>]
Singular(word) ==
    CASE word = "Cracks" -> "Crack"
      [] word = "Corrosions" -> "Corrosion"
      [] word = "Spallings" -> "Spalling"
      [] OTHER -> word
LevelRank(level) == CASE level = "High" -> 1 [] level = "Medium" -> 2 [] level = "Low" -> 3
NumberOf(dets, Test(_)) == Cardinality({i \in DOMAIN dets : Test(dets[i])})

\* C16: the summary of a report with at least one entry states the total; its
\* type listing has one item per type present, whose count is the number of
\* entries of that type; its severity listing has one item per level present,
\* in the order High, Medium, Low, whose count is the number of entries of that
\* level; and it ends with the urgency sentence exactly when some entry is High.
C16_SummaryFacts ==
    \A r \in Requests :
        (Reported(r) /\ response[r].detections # <<>>) =>
            LET dets == response[r].detections
                summary == response[r].summary
                types == Listing(summary, "Types:")
                levels == Listing(summary, "Severity:")
                OfType(word) == NumberOf(dets, LAMBDA d : Capitalize(d.defect_type) = Singular(word))
                OfLevel(level) == NumberOf(dets, LAMBDA d : d.severity = level)
            IN  /\ summary[2] = Str(Len(dets))
                /\ WellFormedListing(types) /\ WellFormedListing(levels)
                /\ \A i \in DOMAIN Items(types) :
                      /\ Items(types)[i][1] = Str(OfType(Items(types)[i][2]))
                      /\ OfType(Items(types)[i][2]) > 0
                      /\ \A j \in DOMAIN Items(types) :
                            Singular(Items(types)[j][2]) = Singular(Items(types)[i][2]) => j = i
                /\ \A k \in DOMAIN dets :
                      \E i \in DOMAIN Items(types) :
                          Singular(Items(types)[i][2]) = Capitalize(dets[k].defect_type)
                /\ \A i \in DOMAIN Items(levels) :
                      /\ Items(levels)[i][2] \in {"High", "Medium", "Low"}
                      /\ OfLevel(Items(levels)[i][2]) > 0
                      /\ Items(levels)[i][1] = Str(OfLevel(Items(levels)[i][2]))
                      /\ \A j \in DOMAIN Items(levels) :
                            i < j => LevelRank(Items(levels)[i][2]) < LevelRank(Items(levels)[j][2])
                /\ \A k \in DOMAIN dets :
                      \E i \in DOMAIN Items(levels) : Items(levels)[i][2] = dets[k].severity
                /\ (summary[Len(summary)] = UrgencySentence) <=> (OfLevel("High") > 0)
                /\ \A i \in 1..(Len(summary) - 1) : summary[i] # UrgencySentence

C16_Witness ==
    \E r \in Requests :
        /\ Reported(r) /\ Len(response[r].detections) = 3
        /\ Listing(response[r].summary, "Severity:") = <<"1", "High", ",", "2", "Low">>
        /\ Listing(response[r].summary, "Types:") = <<"1", "Crack", ",", "2", "Corrosions">>
        /\ response[r].summary[Len(response[r].summary)] = UrgencySentence

\* C17: once the caller has aborted a request while detection k was being
\* processed, the pipeline makes no explanation call for the detections after
\* k: the explanation calls of the request stay at k or fewer.
C17_AbortStopsExplanations ==
    \A r \in Requests :
        aborted[r] > 0 => calls[r].explain <= aborted[r]

\* Entry k of request r's list (finished or still growing) and the inputs it
\* was assessed on: type, box and confidence of detection k, and the image size.
EntryInputs(r, k) ==
    <<detections[r][k].class_name, detections[r][k].bbox, detections[r][k].confidence,
      image[r]>>
EntrySeverity(r, k) == <<processed[r][k].severity, processed[r][k].severity_reasoning>>

\* C18: severity and reasoning of an entry depend only on the detection's
\* type, box and confidence and on the image size: any two entries with equal
\* inputs, wherever they stand in their lists and whichever request they
\* belong to, have equal severity and reasoning, and each is the assessor's
\* result for those inputs alone, whatever the service has handled before.
C18_SeverityIsFunctionOfInputs ==
    \A r1 \in Requests, r2 \in Requests :
        \A i \in DOMAIN processed[r1], j \in DOMAIN processed[r2] :
            /\ EntryInputs(r1, i) = EntryInputs(r2, j) => EntrySeverity(r1, i) = EntrySeverity(r2, j)
            /\ LET inputs == EntryInputs(r1, i)
                   result == AssessSeverity(inputs[1], inputs[2], inputs[4], inputs[3])
               IN  EntrySeverity(r1, i) = <<result.severity, result.reasoning>>

\* The same detection twice in one list, with a High entry of another type
\* between the two, in a request that is not the first the service handled.
C18_Witness ==
    \E r \in Requests :
        /\ Len(processed[r]) = 3
        /\ EntryInputs(r, 1) = EntryInputs(r, 3)
        /\ EntryInputs(r, 2) # EntryInputs(r, 1)
        /\ processed[r][2].severity = "High" /\ processed[r][1].severity = "Low"
        /\ r # 1

\* C19: a step in which GET /health is answered leaves inspection_service as
\* it was (None stays None: nothing is constructed or loaded), makes no
\* detector or explanation call, touches no request, and answers the one
\* liveness body, whether or not the service exists.
C19_HealthHasNoSideEffects ==
    [][(health = NoHealth /\ health' # NoHealth) =>
          /\ inspection_service' = inspection_service
          /\ calls' = calls
          /\ det_in_flight' = det_in_flight /\ expl_in_flight' = expl_in_flight
          /\ UNCHANGED <<pc, upload, image, detections, severity, processed, response>>
          /\ health' = [status |-> "healthy", service |-> "Infrastructure Inspection API",
                        version |-> "1.0.0"]]_vars

\* A health check answered before the service exists, while a request is
\* waiting for its body.
C19_Witness ==
    /\ health.status = "healthy"
    /\ inspection_service.is_none
    /\ \E r \in Requests : pc[r] = "reading"

\* The request has passed the content-type and the empty-body test and has
\* got past its call of get_inspection_service.
PastGetService(r) ==
    /\ IsImageType(upload[r].content_type)
    /\ upload[r].body \in {"corrupt", "image"}
    /\ pc[r] \notin {"new", "read", "reading", "get_service"}

\* C20 as stated: the service is constructed at most once, and it is there as
\* soon as the first request that passed validation has called
\* get_inspection_service.
C20_BuiltByFirstValidRequest ==
    /\ inspection_service.built <= 1
    /\ \A r \in Requests : PastGetService(r) => ~inspection_service.is_none

\* C20: the service is constructed successfully at most once; it goes from
\* None to an instance only in the get_inspection_service call of a request
\* that passed validation, and then in the first such call whose construction
\* does not raise (a call whose construction raises leaves None and answers
\* 500); once set it is never reset or replaced, and every later call of
\* get_inspection_service hands out that instance.
C20_Singleton ==
    [][/\ inspection_service'.built <= 1
       /\ inspection_service'.is_none <=> inspection_service'.built = 0
       /\ ~inspection_service.is_none => inspection_service' = inspection_service
       /\ (inspection_service.is_none /\ ~inspection_service'.is_none) =>
             \E r \in Requests :
                 /\ pc[r] = "get_service" /\ pc'[r] = "open"
                 /\ IsImageType(upload[r].content_type)
                 /\ upload[r].body \in {"corrupt", "image"}
       /\ \A r \in Requests :
             (PastGetService(r)' /\ inspection_service'.is_none) =>
                 /\ pc'[r] = "done"
                 /\ response'[r] = HttpError(500, FailureDetail("ConstructionError"))
      ]_vars

\* The instance exists and a request stands at its call of
\* get_inspection_service: the call will hand out the instance built earlier.
C20_Witness ==
    /\ ~inspection_service.is_none /\ inspection_service.built = 1
    /\ \E r \in Requests : pc[r] = "get_service" /\ running = r

\* The rule-based answer for a type and a severity, as C21 words it: the table
\* entry for the lower-cased type when the type is crack, corrosion or
\* spalling, the generic pair otherwise.
RuleBasedPair(defect_type, sev) ==
    IF Lower(defect_type) \in {"crack", "corrosion", "spalling"}
    THEN explanations[Lower(defect_type)][sev]
    ELSE [explanation |->
            CASE defect_type = "rust_stain" ->
                   "Medium severity rust_stain detected requiring engineering assessment."
              [] defect_type = "Rust_Stain" ->
                   "Medium severity Rust_Stain detected requiring engineering assessment.",
          recommended_action |->
            "Consult with licensed structural engineer for evaluation and repair recommendations."]
RuleBasedMode == ~inspection_service.is_none /\ ~inspection_service.use_vlm

\* C21: the explanation mode is fixed when the service is constructed, and in
\* a service built with use_vlm = False every entry of every request carries
\* exactly the rule-based pair for its type and severity (nothing the
\* model-backed provider produces), no explanation call raises and no request
\* fails on its explanation; for a type outside the table the rule-based
\* provider answers the generic pair.
C21_RuleBasedMode ==
    [][/\ ~inspection_service.is_none =>
             inspection_service'.use_vlm = inspection_service.use_vlm
       /\ RuleBasedMode' =>
             \A r \in Requests :
                 /\ \A k \in DOMAIN processed'[r] :
                       /\ processed'[r][k].explanation =
                             RuleBasedPair(processed'[r][k].defect_type,
                                           processed'[r][k].severity).explanation
                       /\ processed'[r][k].recommended_action =
                             RuleBasedPair(processed'[r][k].defect_type,
                                           processed'[r][k].severity).recommended_action
                 /\ response'[r].code = 200 =>
                       \A k \in DOMAIN response'[r].detections :
                           Explained(response'[r].detections[k].explanation,
                                     response'[r].detections[k].recommended_action)
                             = RuleBasedPair(response'[r].detections[k].defect_type,
                                             response'[r].detections[k].severity)
                 /\ calls'[r].explain_raised = {}
                 /\ response'[r].detail # FailureDetail("ExplanationError")
                 /\ (pc[r] = "explaining" /\ pc'[r] # pc[r]) =>
                       (pc'[r] \in {"assess", "summarize"}
                        /\ Len(processed'[r]) = Len(processed[r]) + 1)
       /\ \A t \in {"rust_stain", "Rust_Stain"} :
             GenerateSimpleExplanation(t, "Medium") = RuleBasedPair(t, "Medium")
      ]_vars

\* A report of three entries of the three types, one of each severity, from a
\* service in rule-based mode.
C21_Witness ==
    \E r \in Requests :
        /\ RuleBasedMode /\ Reported(r)
        /\ Len(response[r].detections) = 3
        /\ calls[r].explain = 3
        /\ {response[r].detections[k].severity : k \in 1..3} = {"High", "Medium", "Low"}
        /\ response[r].detections[1].explanation = explanations["crack"]["High"].explanation

====
